---- MODULE Spec2Model ----
(***************************************************************************)
(* Settlement handshake of pkg/transport/handshake.go: the initiator and   *)
(* responder handshakes, validateEntry/verifySig, and the bounded executor *)
(* settlementHandshake.Do, run over streams between two transport managers *)
(* that share one discovery client.                                        *)
(***************************************************************************)
EXTENDS Integers, Sequences, FiniteSets, Bags, TLC

\* ---------------------------------------------------------------- bounds
\* Number of ids uuid.New() can hand out in one run.
MaxFresh == 2

\* ------------------------------------------------------------- constants
\* uuid.UUID{}: the all-zero id that asks the initiator for a fresh one.
NilUUID == 0
\* A concrete id the caller holds from an earlier run of the process.
ExtId == MaxFresh + 1

Streams == {"s1", "s2"}
Roles == {"I", "R"}
Tasks == Streams \X Roles

\* Public keys. "T" is a third party that never owns a stream end.
Identities == {"A", "B", "T"}
\* The transport managers (peers) and the ends of each stream.
Peers == {"A", "B"}
InitiatorOf(s) == "A"
ResponderOf(s) == "B"
Types == {"dmsg", "tcp"}
\* tr.Type(), tr.Local(), tr.Remote() of the Transport each side holds.
TrType(s) == "dmsg"
TrLocal(s, role) == IF role = "I" THEN InitiatorOf(s) ELSE ResponderOf(s)
TrRemote(s, role) == IF role = "I" THEN ResponderOf(s) ELSE InitiatorOf(s)
\* tm.config.SecKey of the manager that runs the given side.
SecKey(p) == <<"sk", p>>
PubKeyOf(sk) == sk[2]

\* Durations handed to Do: zero, or a positive duration.
Timeouts == {0, 1}

\* ------------------------------------------------------------------ data
NoEntry == [nil |-> TRUE]
NullSig == [signer |-> "null", payload |-> <<>>]

MkEntry(id, e0, e1, type, public) ==
    [id |-> id, edges |-> <<e0, e1>>, type |-> type, public |-> public]

\* Entry.ToBinary: the bytes a signature covers.
ToBinary(e) == <<e.id, e.edges[1], e.edges[2], e.type, e.public>>

\* Entry.Signature(secKey)
Signature(e, sk) == [signer |-> PubKeyOf(sk), payload |-> ToBinary(e)]

\* cipher.VerifyPubKeySignedPayload(pk, sig, payload)
VerifyPubKeySignedPayload(pk, sig, payload) ==
    /\ sig /= NullSig
    /\ sig.signer = pk
    /\ sig.payload = payload

\* cipher.Sig.Null()
SigNull(sig) == sig = NullSig

\* verifySig reading position 0 whatever idx is.
verifySigFirstSlot(sEntry, idx, pk) ==
    IF VerifyPubKeySignedPayload(pk, sEntry.sigs[1], ToBinary(sEntry.entry))
    THEN "ok" ELSE "signature verification failed"

\* verifySig(sEntry, idx, pk): "ok" or the cipher error
verifySig(sEntry, idx, pk) ==
    IF VerifyPubKeySignedPayload(pk, sEntry.sigs[idx + 1], ToBinary(sEntry.entry))
    THEN "ok" ELSE "signature verification failed"

\* validateEntry without the edges check.
validateEntryNoEdges(sEntry, trType, trRemote, trLocal) ==
    IF sEntry.entry.type /= trType THEN "invalid entry type"
    ELSE IF SigNull(sEntry.sigs[1]) THEN "invalid entry signature"
    ELSE verifySig(sEntry, 0, trRemote)

\* validateEntry with the edges check moved before the type check.
validateEntryEdgesFirst(sEntry, trType, trRemote, trLocal) ==
    IF sEntry.entry.edges /= <<trRemote, trLocal>> THEN "invalid entry edges"
    ELSE IF sEntry.entry.type /= trType THEN "invalid entry type"
    ELSE IF SigNull(sEntry.sigs[1]) THEN "invalid entry signature"
    ELSE verifySig(sEntry, 0, trRemote)

\* validateEntry(sEntry, tr) on a stream whose Type/Remote/Local are given
validateEntry(sEntry, trType, trRemote, trLocal) ==
    IF sEntry.entry.type /= trType THEN "invalid entry type"
    ELSE IF sEntry.entry.edges /= <<trRemote, trLocal>> THEN "invalid entry edges"
    ELSE IF SigNull(sEntry.sigs[1]) THEN "invalid entry signature"
    ELSE verifySig(sEntry, 0, trRemote)

\* json.NewEncoder(tr).Encode(sEntry): one record on the wire
EncodeJSON(sEntry) ==
    [id |-> sEntry.entry.id, edges |-> sEntry.entry.edges,
     type |-> sEntry.entry.type, public |-> sEntry.entry.public,
     signatures |-> sEntry.sigs]

\* json.NewDecoder(tr).Decode(sEntry): the record's fields overwrite the
\* SignedEntry (and the Entry it points to)
DecodeJSON(msg) ==
    [entry |-> MkEntry(msg.id, msg.edges[1], msg.edges[2], msg.type, msg.public),
     sigs |-> msg.signatures]

NoSigned == [entry |-> NoEntry, sigs |-> <<NullSig, NullSig>>]

\* ----------------------------------------------------------------- state
VARIABLES
    reg,         \* tm.entries of each manager: a collection of Entry values
    discEntries, \* signed entries the discovery service has registered
    discUp,      \* ids the discovery service has marked up
    discCall,    \* per stream: the discovery calls its responder has made, in order
    nextId,      \* the next id uuid.New() returns
    pc,          \* position of each handshake goroutine
    loc,         \* locals of each handshake goroutine
    chanIR,      \* records in flight, initiator to responder
    chanRI,      \* records in flight, responder to initiator
    closed,      \* the stream has been closed
    entryVar,    \* Do's variable entry, written by the goroutine
    errCh,       \* Do's channel errCh (buffered, capacity 1)
    doSt,        \* Do's position: idle, waiting in select, or returned
    doRet,       \* what Do returned to its caller
    timeout,     \* the timeout Do was called with
    timer,       \* the channel of time.After(timeout): armed or fired
    vld          \* one application of validateEntry: its arguments and result

vars == <<reg, discEntries, discUp, discCall, nextId, pc, loc, chanIR, chanRI,
          closed, entryVar, errCh, doSt, doRet, timeout, timer, vld>>

NoRet == [entry |-> NoEntry, err |-> "none"]
\* after: the streams whose two handshakes had both ended when this one was
\* started (history, read by no action)
NoLoc == [id |-> NilUUID, public |-> FALSE, newEntry |-> FALSE, sEntry |-> NoSigned,
          after |-> {}]

NoVld == [sEntry |-> NoSigned, trType |-> "dmsg", trRemote |-> "A", trLocal |-> "B",
          out |-> "none"]

\* capacity of errCh: make(chan error, 1)
ErrChCap == 1

InitSys ==
    /\ reg = [p \in Peers |-> EmptyBag]
    /\ discEntries = {}
    /\ discUp = {}
    /\ discCall = [s \in Streams |-> <<>>]
    /\ nextId = 1
    /\ pc = [d \in Tasks |-> "idle"]
    /\ loc = [d \in Tasks |-> NoLoc]
    /\ chanIR = [s \in Streams |-> <<>>]
    /\ chanRI = [s \in Streams |-> <<>>]
    /\ closed = [s \in Streams |-> FALSE]
    /\ entryVar = [d \in Tasks |-> NoEntry]
    /\ errCh = [d \in Tasks |-> <<>>]
    /\ doSt = [d \in Tasks |-> "idle"]
    /\ doRet = [d \in Tasks |-> NoRet]
    /\ timeout = [d \in Tasks |-> 0]
    /\ timer = [d \in Tasks |-> "armed"]

Init == InitSys /\ vld = NoVld

\* --------------------------------------------------------------- registry
\* tm.addEntry(entry)
addEntry(r, e) == r (+) SetToBag({e})

\* tm.walkEntries(func(e) bool { return *e == *entry }): the match, or nil
walkEntries(r, e) == IF BagIn(e, r) THEN e ELSE NoEntry

\* ------------------------------------------------------------ goroutine end
\* The goroutine of Do: entry = e; errCh <- err. The send blocks while the
\* channel is full. SendNeedsReceiver is the send on an unbuffered channel,
\* which completes only while Do is still in its select.
SendNeedsReceiver(d) == doSt[d] = "waiting" /\ Len(errCh[d]) < ErrChCap

CanReturn(d) == Len(errCh[d]) < ErrChCap

Return(d, e, err) ==
    /\ CanReturn(d)
    /\ entryVar' = [entryVar EXCEPT ![d] = e]
    /\ errCh' = [errCh EXCEPT ![d] = Append(@, err)]
    /\ pc' = [pc EXCEPT ![d] = "done"]

\* ----------------------------------------------------------------- Do
\* Ids a caller can pass to settlementInitiatorHandshake: the zero id, an id
\* it holds from earlier, or the id of an Entry a Do has returned to it.
CallerIds ==
    {NilUUID, ExtId} \cup {doRet[d].entry.id : d \in {x \in Tasks : doRet[x].err = "ok"}}

Ended == {s \in Streams : pc[<<s, "I">>] = "done" /\ pc[<<s, "R">>] = "done"}

\* Do(tm, tr, timeout) with handshake = settlementInitiatorHandshake(id, public):
\* make errCh, start the goroutine, arm the timer, enter select.
DoInitiator(s, id, public, t) ==
    LET d == <<s, "I">> IN
    /\ doSt[d] = "idle"
    /\ pc[d] = "idle"
    /\ id \in CallerIds
    /\ doSt' = [doSt EXCEPT ![d] = "waiting"]
    /\ timeout' = [timeout EXCEPT ![d] = t]
    /\ timer' = [timer EXCEPT ![d] = IF t = 0 THEN "fired" ELSE "armed"]
    /\ pc' = [pc EXCEPT ![d] = "start"]
    /\ loc' = [loc EXCEPT ![d] = [NoLoc EXCEPT !.id = id, !.public = public,
                                          !.after = Ended]]
    /\ UNCHANGED <<reg, discEntries, discUp, discCall, nextId, chanIR, chanRI,
                   closed, entryVar, errCh, doRet, vld>>

\* Do(tm, tr, timeout) with handshake = settlementResponderHandshake
DoResponder(s, t) ==
    LET d == <<s, "R">> IN
    /\ doSt[d] = "idle"
    /\ pc[d] = "idle"
    /\ doSt' = [doSt EXCEPT ![d] = "waiting"]
    /\ timeout' = [timeout EXCEPT ![d] = t]
    /\ timer' = [timer EXCEPT ![d] = IF t = 0 THEN "fired" ELSE "armed"]
    /\ pc' = [pc EXCEPT ![d] = "read"]
    /\ UNCHANGED <<reg, discEntries, discUp, discCall, nextId, loc, chanIR,
                   chanRI, closed, entryVar, errCh, doRet, vld>>

\* A timer that is started only once the handshake has returned.
TimerAfterHandshake(d) ==
    /\ doSt[d] = "waiting"
    /\ timer[d] = "armed"
    /\ pc[d] = "done"
    /\ timer' = [timer EXCEPT ![d] = "fired"]
    /\ UNCHANGED <<reg, discEntries, discUp, discCall, nextId, pc, loc, chanIR,
                   chanRI, closed, entryVar, errCh, doSt, doRet, timeout, vld>>

\* time.After(timeout): the duration elapses and the timer channel is ready
TimerFire(d) ==
    /\ doSt[d] = "waiting"
    /\ timer[d] = "armed"
    /\ timer' = [timer EXCEPT ![d] = "fired"]
    /\ UNCHANGED <<reg, discEntries, discUp, discCall, nextId, pc, loc, chanIR,
                   chanRI, closed, entryVar, errCh, doSt, doRet, timeout, vld>>

\* select case err := <-errCh: return entry, err
DoResult(d) ==
    /\ doSt[d] = "waiting"
    /\ errCh[d] /= <<>>
    /\ doSt' = [doSt EXCEPT ![d] = "returned"]
    /\ doRet' = [doRet EXCEPT ![d] = [entry |-> entryVar[d], err |-> Head(errCh[d])]]
    /\ errCh' = [errCh EXCEPT ![d] = Tail(@)]
    /\ UNCHANGED <<reg, discEntries, discUp, discCall, nextId, pc, loc, chanIR,
                   chanRI, closed, entryVar, timeout, timer, vld>>

\* The timer case returning the variable entry instead of nil.
DoDeadlineKeepsEntry(d) ==
    /\ doSt[d] = "waiting"
    /\ timer[d] = "fired"
    /\ doSt' = [doSt EXCEPT ![d] = "returned"]
    /\ doRet' = [doRet EXCEPT ![d] = [entry |-> entryVar[d], err |-> "deadline exceeded"]]
    /\ UNCHANGED <<reg, discEntries, discUp, discCall, nextId, pc, loc, chanIR,
                   chanRI, closed, entryVar, errCh, timeout, timer, vld>>

\* select case <-time.After(timeout): return nil, "deadline exceeded"
DoDeadline(d) ==
    /\ doSt[d] = "waiting"
    /\ timer[d] = "fired"
    /\ doSt' = [doSt EXCEPT ![d] = "returned"]
    /\ doRet' = [doRet EXCEPT ![d] = [entry |-> NoEntry, err |-> "deadline exceeded"]]
    /\ UNCHANGED <<reg, discEntries, discUp, discCall, nextId, pc, loc, chanIR,
                   chanRI, closed, entryVar, errCh, timeout, timer, vld>>

\* ------------------------------------------- settlementInitiatorHandshake
\* The test of line 42 inverted.
IsNewRequestInverted(id) == id /= NilUUID

\* Line 42: newEntry := id == uuid.UUID{}
IsNewRequest(id) == id = NilUUID

\* The record of line 48 never reaching the stream.
InitiatorWriteLost(s) ==
    LET d == <<s, "I">>
        id == loc[d].id
        newEntry == IsNewRequest(id)
        entry == MkEntry(IF newEntry THEN nextId ELSE id,
                         TrLocal(s, "I"), TrRemote(s, "I"), TrType(s), loc[d].public)
        sEntry == [entry |-> entry,
                   sigs |-> <<Signature(entry, SecKey(TrLocal(s, "I"))), NullSig>>]
    IN
    /\ pc[d] = "start"
    /\ newEntry => nextId <= MaxFresh
    /\ nextId' = IF newEntry THEN nextId + 1 ELSE nextId
    /\ loc' = [loc EXCEPT ![d].newEntry = newEntry, ![d].sEntry = sEntry]
    /\ IF closed[s]
       THEN Return(d, NoEntry, "write")
       ELSE /\ pc' = [pc EXCEPT ![d] = "read"]
            /\ UNCHANGED <<entryVar, errCh>>
    /\ UNCHANGED <<reg, discEntries, discUp, discCall, chanIR, chanRI, closed,
                   doSt, doRet, timeout, timer, vld>>

\* Lines 35-50: build the entry, draw a fresh id for the zero id, sign
\* position 0 and write the record.
InitiatorWrite(s) ==
    LET d == <<s, "I">>
        id == loc[d].id
        newEntry == IsNewRequest(id)
        entry == MkEntry(IF newEntry THEN nextId ELSE id,
                         TrLocal(s, "I"), TrRemote(s, "I"), TrType(s), loc[d].public)
        sEntry == [entry |-> entry,
                   sigs |-> <<Signature(entry, SecKey(TrLocal(s, "I"))), NullSig>>]
    IN
    /\ pc[d] = "start"
    /\ newEntry => nextId <= MaxFresh
    /\ nextId' = IF newEntry THEN nextId + 1 ELSE nextId
    /\ loc' = [loc EXCEPT ![d].newEntry = newEntry, ![d].sEntry = sEntry]
    /\ IF closed[s]
       THEN /\ Return(d, NoEntry, "write")
            /\ UNCHANGED chanIR
       ELSE /\ chanIR' = [chanIR EXCEPT ![s] = Append(@, EncodeJSON(sEntry))]
            /\ pc' = [pc EXCEPT ![d] = "read"]
            /\ UNCHANGED <<entryVar, errCh>>
    /\ UNCHANGED <<reg, discEntries, discUp, discCall, chanRI, closed, doSt,
                   doRet, timeout, timer, vld>>

\* The add of lines 60-62 moved before the check of lines 56-58.
InitiatorReadAddFirst(s) ==
    LET d == <<s, "I">>
        sEntry == DecodeJSON(Head(chanRI[s]))
        v == verifySig(sEntry, 1, TrRemote(s, "I"))
    IN
    /\ pc[d] = "read"
    /\ chanRI[s] /= <<>>
    /\ chanRI' = [chanRI EXCEPT ![s] = Tail(@)]
    /\ loc' = [loc EXCEPT ![d].sEntry = sEntry]
    /\ reg' = IF loc[d].newEntry
              THEN [reg EXCEPT ![TrLocal(s, "I")] = addEntry(@, sEntry.entry)]
              ELSE reg
    /\ IF v /= "ok"
       THEN Return(d, NoEntry, v)
       ELSE Return(d, sEntry.entry, "ok")
    /\ UNCHANGED <<discEntries, discUp, discCall, nextId, chanIR, closed, doSt,
                   doRet, timeout, timer, vld>>

\* The add of line 61 made without the test of line 60.
InitiatorReadAlwaysAdd(s) ==
    LET d == <<s, "I">>
        sEntry == DecodeJSON(Head(chanRI[s]))
        v == verifySig(sEntry, 1, TrRemote(s, "I"))
    IN
    /\ pc[d] = "read"
    /\ chanRI[s] /= <<>>
    /\ chanRI' = [chanRI EXCEPT ![s] = Tail(@)]
    /\ loc' = [loc EXCEPT ![d].sEntry = sEntry]
    /\ IF v /= "ok"
       THEN /\ Return(d, NoEntry, v)
            /\ UNCHANGED reg
       ELSE /\ reg' = [reg EXCEPT ![TrLocal(s, "I")] = addEntry(@, sEntry.entry)]
            /\ Return(d, sEntry.entry, "ok")
    /\ UNCHANGED <<discEntries, discUp, discCall, nextId, chanIR, closed, doSt,
                   doRet, timeout, timer, vld>>

\* Lines 52-64: read the reply into sEntry (and so into entry, which
\* sEntry.Entry points to), verify signature 1, add when the id was fresh.
InitiatorRead(s) ==
    LET d == <<s, "I">>
        sEntry == DecodeJSON(Head(chanRI[s]))
        v == verifySig(sEntry, 1, TrRemote(s, "I"))
    IN
    /\ pc[d] = "read"
    /\ chanRI[s] /= <<>>
    /\ chanRI' = [chanRI EXCEPT ![s] = Tail(@)]
    /\ loc' = [loc EXCEPT ![d].sEntry = sEntry]
    /\ IF v /= "ok"
       THEN /\ Return(d, NoEntry, v)
            /\ UNCHANGED reg
       ELSE /\ reg' = IF loc[d].newEntry
                      THEN [reg EXCEPT ![TrLocal(s, "I")] = addEntry(@, sEntry.entry)]
                      ELSE reg
            /\ Return(d, sEntry.entry, "ok")
    /\ UNCHANGED <<discEntries, discUp, discCall, nextId, chanIR, closed, doSt,
                   doRet, timeout, timer, vld>>

\* Lines 52-54: the read fails on a closed stream
InitiatorReadErr(s) ==
    LET d == <<s, "I">> IN
    /\ pc[d] = "read"
    /\ chanRI[s] = <<>>
    /\ closed[s]
    /\ Return(d, NoEntry, "read")
    /\ UNCHANGED <<reg, discEntries, discUp, discCall, nextId, loc, chanIR,
                   chanRI, closed, doSt, doRet, timeout, timer, vld>>

\* ------------------------------------------- settlementResponderHandshake
\* The responder's signature stored by overwriting the whole array.
ResponderSignClobber(rcvd, sk) ==
    [rcvd EXCEPT !.sigs = <<NullSig, Signature(rcvd.entry, sk)>>]

\* Line 78: sEntry.Signatures[1] = sEntry.Entry.Signature(tm.config.SecKey)
ResponderSign(rcvd, sk) == [rcvd EXCEPT !.sigs[2] = Signature(rcvd.entry, sk)]

\* The two branches of lines 83-87 swapped.
DiscoveryOpSwapped(newEntry) == IF newEntry THEN "update" ELSE "register"

\* Lines 83-87: status update for a known entry, register for a new one
DiscoveryOp(newEntry) == IF newEntry THEN "register" ELSE "update"

\* The lookup of line 79 made by id alone.
ResponderReadMatchById(s) ==
    LET d == <<s, "R">>
        rcvd == DecodeJSON(Head(chanIR[s]))
        v == validateEntry(rcvd, TrType(s), TrRemote(s, "R"), TrLocal(s, "R"))
        sEntry == ResponderSign(rcvd, SecKey(TrLocal(s, "R")))
        newEntry == \A x \in BagToSet(reg[TrLocal(s, "R")]) : x.id /= sEntry.entry.id
    IN
    /\ pc[d] = "read"
    /\ chanIR[s] /= <<>>
    /\ chanIR' = [chanIR EXCEPT ![s] = Tail(@)]
    /\ IF v /= "ok"
       THEN /\ loc' = [loc EXCEPT ![d].sEntry = rcvd]
            /\ Return(d, NoEntry, v)
       ELSE /\ loc' = [loc EXCEPT ![d].sEntry = sEntry, ![d].newEntry = newEntry,
                                  ![d].id = sEntry.entry.id,
                                  ![d].public = sEntry.entry.public]
            /\ pc' = [pc EXCEPT ![d] = IF sEntry.entry.public THEN "disc" ELSE "write"]
            /\ UNCHANGED <<entryVar, errCh>>
    /\ UNCHANGED <<reg, discEntries, discUp, discCall, nextId, chanRI, closed,
                   doSt, doRet, timeout, timer, vld>>

\* The discovery call made without the test of line 82.
ResponderReadAlwaysDisc(s) ==
    LET d == <<s, "R">>
        rcvd == DecodeJSON(Head(chanIR[s]))
        v == validateEntry(rcvd, TrType(s), TrRemote(s, "R"), TrLocal(s, "R"))
        sEntry == ResponderSign(rcvd, SecKey(TrLocal(s, "R")))
        newEntry == walkEntries(reg[TrLocal(s, "R")], sEntry.entry) = NoEntry
    IN
    /\ pc[d] = "read"
    /\ chanIR[s] /= <<>>
    /\ chanIR' = [chanIR EXCEPT ![s] = Tail(@)]
    /\ IF v /= "ok"
       THEN /\ loc' = [loc EXCEPT ![d].sEntry = rcvd]
            /\ Return(d, NoEntry, v)
       ELSE /\ loc' = [loc EXCEPT ![d].sEntry = sEntry, ![d].newEntry = newEntry,
                                  ![d].id = sEntry.entry.id,
                                  ![d].public = sEntry.entry.public]
            /\ pc' = [pc EXCEPT ![d] = "disc"]
            /\ UNCHANGED <<entryVar, errCh>>
    /\ UNCHANGED <<reg, discEntries, discUp, discCall, nextId, chanRI, closed,
                   doSt, doRet, timeout, timer, vld>>

\* Lines 69-79: read the record, validate it, sign position 1 and look the
\* entry up in the registry.
ResponderRead(s) ==
    LET d == <<s, "R">>
        rcvd == DecodeJSON(Head(chanIR[s]))
        v == validateEntry(rcvd, TrType(s), TrRemote(s, "R"), TrLocal(s, "R"))
        sEntry == ResponderSign(rcvd, SecKey(TrLocal(s, "R")))
        newEntry == walkEntries(reg[TrLocal(s, "R")], sEntry.entry) = NoEntry
    IN
    /\ pc[d] = "read"
    /\ chanIR[s] /= <<>>
    /\ chanIR' = [chanIR EXCEPT ![s] = Tail(@)]
    /\ IF v /= "ok"
       THEN /\ loc' = [loc EXCEPT ![d].sEntry = rcvd]
            /\ Return(d, NoEntry, v)
       ELSE /\ loc' = [loc EXCEPT ![d].sEntry = sEntry, ![d].newEntry = newEntry,
                                  ![d].id = sEntry.entry.id,
                                  ![d].public = sEntry.entry.public]
            /\ pc' = [pc EXCEPT ![d] = IF sEntry.entry.public THEN "disc" ELSE "write"]
            /\ UNCHANGED <<entryVar, errCh>>
    /\ UNCHANGED <<reg, discEntries, discUp, discCall, nextId, chanRI, closed,
                   doSt, doRet, timeout, timer, vld>>

\* Lines 70-72: the read fails on a closed stream
ResponderReadErr(s) ==
    LET d == <<s, "R">> IN
    /\ pc[d] = "read"
    /\ chanIR[s] = <<>>
    /\ closed[s]
    /\ Return(d, NoEntry, "read")
    /\ UNCHANGED <<reg, discEntries, discUp, discCall, nextId, loc, chanIR,
                   chanRI, closed, doSt, doRet, timeout, timer, vld>>

\* The discovery error dropped.
EntrySetIgnored(ok) == FALSE

\* Lines 90-92: if err != nil { return nil, "entry set: ..." }
EntrySetFailed(ok) == ~ok

\* Lines 81-92: the discovery call for a public entry; ok is its outcome.
ResponderDisc(s, ok) ==
    LET d == <<s, "R">>
        sEntry == loc[d].sEntry
        op == DiscoveryOp(loc[d].newEntry)
    IN
    /\ pc[d] = "disc"
    /\ discCall' = [discCall EXCEPT ![s] = Append(@, [op |-> op, ok |-> ok])]
    /\ discEntries' = IF ok /\ op = "register" THEN discEntries \cup {sEntry}
                      ELSE discEntries
    /\ discUp' = IF ok /\ op = "update" THEN discUp \cup {sEntry.entry.id}
                 ELSE discUp
    /\ IF EntrySetFailed(ok)
       THEN Return(d, NoEntry, "entry set")
       ELSE /\ pc' = [pc EXCEPT ![d] = "write"]
            /\ UNCHANGED <<entryVar, errCh>>
    /\ UNCHANGED <<reg, nextId, loc, chanIR, chanRI, closed, doSt, doRet,
                   timeout, timer, vld>>

\* Lines 94-96: write the fully signed record back
ResponderWrite(s) ==
    LET d == <<s, "R">> IN
    /\ pc[d] = "write"
    /\ IF closed[s]
       THEN /\ Return(d, NoEntry, "write")
            /\ UNCHANGED chanRI
       ELSE /\ chanRI' = [chanRI EXCEPT ![s] = Append(@, EncodeJSON(loc[d].sEntry))]
            /\ pc' = [pc EXCEPT ![d] = "add"]
            /\ UNCHANGED <<entryVar, errCh>>
    /\ UNCHANGED <<reg, discEntries, discUp, discCall, nextId, loc, chanIR,
                   closed, doSt, doRet, timeout, timer, vld>>

\* Lines 98-102: add the entry when it was judged new, and return it
ResponderAdd(s) ==
    LET d == <<s, "R">> IN
    /\ pc[d] = "add"
    /\ reg' = IF loc[d].newEntry
              THEN [reg EXCEPT ![TrLocal(s, "R")] = addEntry(@, loc[d].sEntry.entry)]
              ELSE reg
    /\ Return(d, loc[d].sEntry.entry, "ok")
    /\ UNCHANGED <<discEntries, discUp, discCall, nextId, loc, chanIR, chanRI,
                   closed, doSt, doRet, timeout, timer, vld>>

\* ------------------------------------------------------------ environment
\* The stream is closed (by either end's owner, or by the network).
Close(s) ==
    /\ ~closed[s]
    /\ closed' = [closed EXCEPT ![s] = TRUE]
    /\ UNCHANGED <<reg, discEntries, discUp, discCall, nextId, pc, loc, chanIR,
                   chanRI, entryVar, errCh, doSt, doRet, timeout, timer, vld>>

\* ------------------------------------------------------- untrusted remote
\* What a remote end that does not run this code can put on the wire: any
\* entry, with each signature slot null, made with a key it holds (its own
\* or the third party's) over this entry or over other bytes, or replayed
\* from what it has read.
ForgeIds == {NilUUID, 1, ExtId}
ForgeEdges == {<<"A", "B">>, <<"B", "A">>, <<"A", "T">>, <<"T", "B">>}
AllEntries ==
    {MkEntry(i, ed[1], ed[2], ty, pu) :
        i \in ForgeIds, ed \in ForgeEdges, ty \in Types, pu \in BOOLEAN}

CorruptSig(k) == [signer |-> k, payload |-> <<"corrupt">>]

\* The ways the untrusted end fills a signature slot.
SigKinds == {"null", "own", "third", "corrupt", "replay"}

ForgedSig(kind, e, own, seen) ==
    CASE kind = "null" -> NullSig
      [] kind = "own" -> Signature(e, SecKey(own))
      [] kind = "third" -> Signature(e, SecKey("T"))
      [] kind = "corrupt" -> CorruptSig(own)
      [] kind = "replay" -> seen

\* The remote of the responder writes a record instead of running the
\* initiator handshake.
ForgeToResponder(s, e, k0, k1) ==
    LET d == <<s, "I">>
        own == InitiatorOf(s)
        sigs == <<ForgedSig(k0, e, own, NullSig), ForgedSig(k1, e, own, NullSig)>>
    IN
    /\ pc[d] = "idle"
    /\ doSt[d] = "idle"
    /\ ~closed[s]
    /\ k0 /= "replay" /\ k1 /= "replay"
    /\ pc' = [pc EXCEPT ![d] = "adversary"]
    /\ chanIR' = [chanIR EXCEPT ![s] = Append(@, EncodeJSON([entry |-> e, sigs |-> sigs]))]
    /\ UNCHANGED <<reg, discEntries, discUp, discCall, nextId, loc, chanRI,
                   closed, entryVar, errCh, doSt, doRet, timeout, timer, vld>>

\* The remote of the initiator writes a reply instead of running the
\* responder handshake; it may replay the signature the initiator sent.
ForgeToInitiator(s, e, k0, k1) ==
    LET d == <<s, "R">>
        own == ResponderOf(s)
        seen == loc[<<s, "I">>].sEntry.sigs[1]
        sigs == <<ForgedSig(k0, e, own, seen), ForgedSig(k1, e, own, seen)>>
    IN
    /\ pc[d] = "idle"
    /\ doSt[d] = "idle"
    /\ ~closed[s]
    /\ pc[<<s, "I">>] = "read"
    /\ pc' = [pc EXCEPT ![d] = "adversary"]
    /\ chanRI' = [chanRI EXCEPT ![s] = Append(@, EncodeJSON([entry |-> e, sigs |-> sigs]))]
    /\ UNCHANGED <<reg, discEntries, discUp, discCall, nextId, loc, chanIR,
                   closed, entryVar, errCh, doSt, doRet, timeout, timer, vld>>

\* One stream between the two managers; either end may abandon it.
Solo == {"s1"}

Next ==
    \/ \E s \in Solo, id \in 0 .. ExtId, public \in BOOLEAN, t \in Timeouts :
          DoInitiator(s, id, public, t)
    \/ \E s \in Solo, t \in Timeouts : DoResponder(s, t)
    \/ \E d \in Solo \X Roles : TimerFire(d)
    \/ \E d \in Solo \X Roles : DoResult(d)
    \/ \E d \in Solo \X Roles : DoDeadline(d)
    \/ \E s \in Solo : InitiatorWrite(s)
    \/ \E s \in Solo : InitiatorRead(s)
    \/ \E s \in Solo : InitiatorReadErr(s)
    \/ \E s \in Solo : ResponderRead(s)
    \/ \E s \in Solo : ResponderReadErr(s)
    \/ \E s \in Solo, ok \in BOOLEAN : ResponderDisc(s, ok)
    \/ \E s \in Solo : ResponderWrite(s)
    \/ \E s \in Solo : ResponderAdd(s)
    \/ \E s \in Solo : Close(s)

Spec == Init /\ [][Next]_vars

\* The owner of a stream closes it after its Do has returned an error.
CloseFailed(s) ==
    /\ \E r \in Roles : doSt[<<s, r>>] = "returned" /\ doRet[<<s, r>>].err /= "ok"
    /\ Close(s)

\* Two streams between the same two managers, every Do called with a
\* positive timeout; a stream is closed only after a handshake on it failed.
NextPair ==
    \/ \E s \in Streams, id \in 0 .. ExtId, public \in BOOLEAN, t \in Timeouts \ {0} :
          DoInitiator(s, id, public, t)
    \/ \E s \in Streams, t \in Timeouts \ {0} : DoResponder(s, t)
    \/ \E d \in Tasks : TimerFire(d)
    \/ \E d \in Tasks : DoResult(d)
    \/ \E d \in Tasks : DoDeadline(d)
    \/ \E s \in Streams : InitiatorWrite(s)
    \/ \E s \in Streams : InitiatorRead(s)
    \/ \E s \in Streams : ResponderRead(s)
    \/ \E s \in Streams, ok \in BOOLEAN : ResponderDisc(s, ok)
    \/ \E s \in Streams : ResponderWrite(s)
    \/ \E s \in Streams : ResponderAdd(s)
    \/ \E s \in Streams : InitiatorReadErr(s)
    \/ \E s \in Streams : ResponderReadErr(s)
    \/ \E s \in Streams : CloseFailed(s)

SpecPair == Init /\ [][NextPair]_vars

\* One stream whose remote end may be untrusted.
NextForge ==
    \/ Next
    \/ \E s \in Solo, e \in AllEntries, k0 \in SigKinds, k1 \in SigKinds :
          ForgeToResponder(s, e, k0, k1)
    \/ \E s \in Solo, e \in AllEntries, k0 \in SigKinds, k1 \in SigKinds :
          ForgeToInitiator(s, e, k0, k1)

SpecForge == Init /\ [][NextForge]_vars

\* Fairness of the Go runtime towards Do: an armed timer fires, and a select
\* with a ready case returns. Nothing is assumed of the handshakes or of
\* the remote peer.
DoFairness ==
    \A d \in Solo \X Roles :
        /\ WF_vars(TimerFire(d))
        /\ WF_vars(DoResult(d) \/ DoDeadline(d))

LiveSpec == Init /\ [][Next]_vars /\ DoFairness

\* One stream that is never closed (a reliable stream), both ends running
\* this code.
NextReliable ==
    \/ \E s \in Solo, id \in 0 .. ExtId, public \in BOOLEAN, t \in Timeouts :
          DoInitiator(s, id, public, t)
    \/ \E s \in Solo, t \in Timeouts : DoResponder(s, t)
    \/ \E d \in Solo \X Roles : TimerFire(d)
    \/ \E d \in Solo \X Roles : DoResult(d)
    \/ \E d \in Solo \X Roles : DoDeadline(d)
    \/ \E s \in Solo : InitiatorWrite(s)
    \/ \E s \in Solo : InitiatorRead(s)
    \/ \E s \in Solo : ResponderRead(s)
    \/ \E s \in Solo, ok \in BOOLEAN : ResponderDisc(s, ok)
    \/ \E s \in Solo : ResponderWrite(s)
    \/ \E s \in Solo : ResponderAdd(s)

\* Fairness of the Go runtime towards the handshake goroutines: a goroutine
\* whose next statement can run does run, a read returns once a record is
\* there, and the discovery client answers (with or without an error).
HandshakeFairness ==
    \A s \in Solo :
        /\ WF_vars(InitiatorWrite(s))
        /\ WF_vars(InitiatorRead(s))
        /\ WF_vars(ResponderRead(s))
        /\ WF_vars(\E ok \in BOOLEAN : ResponderDisc(s, ok))
        /\ WF_vars(ResponderWrite(s))
        /\ WF_vars(ResponderAdd(s))

SpecReliable == Init /\ [][NextReliable]_vars /\ DoFairness /\ HandshakeFairness

\* ------------------------------------------------- validateEntry on its own
\* Arguments of validateEntry: any entry, signature 0 null, made by any key
\* over the entry, or over other bytes; any stream type and orientation.
VldSigs(e) ==
    {NullSig} \cup {Signature(e, SecKey(k)) : k \in Identities}
              \cup {CorruptSig(k) : k \in Identities}

VldInputs ==
    {[sEntry |-> [entry |-> x[1], sigs |-> <<x[2], NullSig>>], trType |-> ty,
      trRemote |-> ends[1], trLocal |-> ends[2], out |-> "none"] :
        x \in {y \in AllEntries \X UNION {VldSigs(e) : e \in AllEntries} :
                  y[2] \in VldSigs(y[1])},
        ty \in Types, ends \in {<<"A", "B">>, <<"B", "A">>}}

InitValidate == InitSys /\ vld \in VldInputs

Validate ==
    /\ vld.out = "none"
    /\ vld' = [vld EXCEPT !.out = validateEntry(vld.sEntry, vld.trType,
                                                vld.trRemote, vld.trLocal)]
    /\ UNCHANGED <<reg, discEntries, discUp, discCall, nextId, pc, loc, chanIR,
                   chanRI, closed, entryVar, errCh, doSt, doRet, timeout, timer>>

SpecValidate == InitValidate /\ [][Validate]_vars

\* ================================================================ claims
\* The error a finished handshake goroutine returned: still in errCh, or
\* already taken out of it by Do.
TaskErr(d) == IF errCh[d] /= <<>> THEN Head(errCh[d]) ELSE doRet[d].err

Succeeded(d) == pc[d] = "done" /\ TaskErr(d) = "ok"

ValidationErrors ==
    {"invalid entry type", "invalid entry edges", "invalid entry signature",
     "signature verification failed"}

\* C1: when the initiator and the responder handshake of a stream have both
\* returned without error, both hold the same Entry (id, edges, type,
\* public), its edges are [initiator, responder], and on both sides
\* signature 0 verifies against the initiator and signature 1 against the
\* responder.
C1_BothSidesAgree ==
    \A s \in Streams :
        LET i == <<s, "I">>
            r == <<s, "R">>
        IN (Succeeded(i) /\ Succeeded(r)) =>
            /\ entryVar[i] = entryVar[r]
            /\ entryVar[i].edges = <<InitiatorOf(s), ResponderOf(s)>>
            /\ entryVar[i].type = TrType(s)
            /\ \A d \in {i, r} :
                  /\ loc[d].sEntry.entry = entryVar[d]
                  /\ VerifyPubKeySignedPayload(InitiatorOf(s), loc[d].sEntry.sigs[1],
                                               ToBinary(entryVar[d]))
                  /\ VerifyPubKeySignedPayload(ResponderOf(s), loc[d].sEntry.sigs[2],
                                               ToBinary(entryVar[d]))

C1_Witness ==
    \E s \in Streams :
        /\ Succeeded(<<s, "I">>) /\ Succeeded(<<s, "R">>)
        /\ doRet[<<s, "I">>].err = "ok" /\ doRet[<<s, "R">>].err = "ok"

\* A record on the wire that fails one of the four checks, stated on the
\* record itself.
Rejected(m, s) ==
    \/ m.type /= TrType(s)
    \/ m.edges /= <<InitiatorOf(s), ResponderOf(s)>>
    \/ m.signatures[1] = NullSig
    \/ ~VerifyPubKeySignedPayload(InitiatorOf(s), m.signatures[1],
                                  <<m.id, m.edges[1], m.edges[2], m.type, m.public>>)

C2_Inv ==
    \A s \in Streams :
        (pc[<<s, "R">>] = "done" /\ TaskErr(<<s, "R">>) \in ValidationErrors) =>
            /\ entryVar[<<s, "R">>] = NoEntry
            /\ chanRI[s] = <<>>
            /\ discCall[s] = <<>>

C2_Step ==
    \A s \in Streams :
        LET r == <<s, "R">> IN
        (/\ pc[r] = "read" /\ pc'[r] /= "read"
         /\ chanIR[s] /= <<>>
         /\ Rejected(Head(chanIR[s]), s)) =>
            /\ pc'[r] = "done"
            /\ Len(errCh'[r]) = 1 /\ errCh'[r][1] \in ValidationErrors
            /\ entryVar'[r] = NoEntry
            /\ chanRI' = chanRI
            /\ discCall' = discCall /\ discEntries' = discEntries /\ discUp' = discUp
            /\ reg' = reg

\* C2: a responder that reads a record failing validation (wrong type, wrong
\* edges, null signature 0, signature 0 not verifying) returns a validation
\* error and no Entry in that same step, which writes nothing to the stream,
\* makes no discovery call and leaves every registry as it was; and a
\* responder that ended with a validation error has written no reply and
\* made no discovery call.
C2_ValidationFailureAborts == [](C2_Inv) /\ [][C2_Step]_vars

C2_Witness ==
    \E s \in Streams :
        /\ pc[<<s, "R">>] = "done"
        /\ TaskErr(<<s, "R">>) = "signature verification failed"
        /\ doRet[<<s, "R">>].err = "signature verification failed"

\* C3: validateEntry returns the outcome of the first failing check in the
\* order type, edges, signature 0 present, signature 0 verifies, and "ok"
\* exactly when all four pass.
C3_ValidationOrder ==
    vld.out /= "none" =>
        LET e == vld.sEntry.entry
            sig0 == vld.sEntry.sigs[1]
            typeOk == e.type = vld.trType
            edgesOk == e.edges = <<vld.trRemote, vld.trLocal>>
            present == sig0 /= NullSig
            verifies == VerifyPubKeySignedPayload(vld.trRemote, sig0, ToBinary(e))
        IN /\ ~typeOk => vld.out = "invalid entry type"
           /\ (typeOk /\ ~edgesOk) => vld.out = "invalid entry edges"
           /\ (typeOk /\ edgesOk /\ ~present) => vld.out = "invalid entry signature"
           /\ (typeOk /\ edgesOk /\ present /\ ~verifies) =>
                  vld.out = "signature verification failed"
           /\ vld.out = "ok" <=> (typeOk /\ edgesOk /\ present /\ verifies)

\* A wrong type reported although edges and signature are wrong as well.
C3_Witness ==
    /\ vld.out = "invalid entry type"
    /\ vld.sEntry.entry.edges /= <<vld.trRemote, vld.trLocal>>
    /\ vld.sEntry.sigs[1] = NullSig

\* The discovery call of the responder on s returned an error.
DiscFailed(s) == discCall[s] /= <<>> /\ ~discCall[s][Len(discCall[s])].ok

C4_Inv ==
    \A s \in Streams :
        LET i == <<s, "I">>
            r == <<s, "R">>
        IN DiscFailed(s) =>
            /\ Len(discCall[s]) = 1
            /\ loc[r].sEntry.entry.public
            /\ pc[r] = "done" /\ TaskErr(r) = "entry set" /\ entryVar[r] = NoEntry
            /\ chanRI[s] = <<>>
            /\ pc[i] \in {"read", "done"}
            /\ pc[i] = "done" => (TaskErr(i) = "read" /\ entryVar[i] = NoEntry)
            /\ doRet[i].err \in {"none", "read", "deadline exceeded"}
            /\ doRet[i].entry = NoEntry

C4_Step ==
    \A s \in Streams :
        (/\ DiscFailed(s)'
         /\ \E d \in {<<s, "I">>, <<s, "R">>} : pc'[d] /= pc[d]) =>
            /\ reg' = reg
            /\ chanRI' = chanRI

\* C4: once the discovery call (register or status update) of a responder
\* has returned an error, that responder has ended with the "entry set"
\* error and no Entry, no reply is on the stream, the initiator of the
\* stream is still reading or has ended with a read error (its Do has
\* returned nothing yet, the read error, or deadline exceeded; never an
\* Entry), and no step of either handshake changes a registry or writes a
\* reply.
C4_DiscoveryFailureAborts == [](C4_Inv) /\ [][C4_Step]_vars

\* A failed status update, seen by the initiator as a read error.
C4_Witness ==
    \E s \in Streams :
        /\ DiscFailed(s)
        /\ discCall[s][1].op = "update"
        /\ pc[<<s, "I">>] = "done" /\ doRet[<<s, "I">>].err = "read"

\* C5: one handshake from empty registries and an empty discovery service,
\* with the zero id and public = true, ended without error on both sides:
\* the only discovery call is one register, the returned id is not the zero
\* id, and each manager's registry holds exactly that one entry.
C5_FreshPublicHandshake ==
    \A s \in Solo :
        LET i == <<s, "I">>
            r == <<s, "R">>
        IN (/\ Succeeded(i) /\ Succeeded(r)
            /\ loc[i].id = NilUUID /\ loc[i].public) =>
            /\ discCall[s] = <<[op |-> "register", ok |-> TRUE]>>
            /\ entryVar[i].id /= NilUUID
            /\ entryVar[r].id = entryVar[i].id
            /\ reg[InitiatorOf(s)] = SetToBag({entryVar[i]})
            /\ reg[ResponderOf(s)] = SetToBag({entryVar[i]})
            /\ Cardinality(discEntries) = 1 /\ discUp = {}

C5_Witness ==
    \E s \in Solo :
        /\ Succeeded(<<s, "I">>) /\ Succeeded(<<s, "R">>)
        /\ loc[<<s, "I">>].id = NilUUID /\ loc[<<s, "I">>].public
        /\ BagCardinality(reg["A"]) = 1 /\ BagCardinality(reg["B"]) = 1

\* C6: a handshake started after both handshakes of an earlier stream had
\* ended without error, with the id and the public flag of the Entry that
\* stream returned: once its responder has read the entry it has judged it
\* not new, its only discovery call (made when the entry is public) is a
\* status update, and the responder's registry holds the entry once.
C6_Reassertion ==
    \A s1 \in Streams, s2 \in Streams :
        LET e == entryVar[<<s1, "R">>]
            i2 == <<s2, "I">>
            r2 == <<s2, "R">>
        IN (/\ s1 /= s2
            /\ s1 \in loc[i2].after
            /\ Succeeded(<<s1, "I">>) /\ Succeeded(<<s1, "R">>)
            /\ loc[i2].id = e.id /\ loc[i2].public = e.public
            /\ pc[r2] \in {"disc", "write", "add", "done"}) =>
            /\ ~loc[r2].newEntry
            /\ \A k \in 1 .. Len(discCall[s2]) : discCall[s2][k].op = "update"
            /\ (e.public /\ pc[r2] \in {"write", "add"}) =>
                   discCall[s2] = <<[op |-> "update", ok |-> TRUE]>>
            /\ Len(discCall[s2]) <= 1
            /\ CopiesIn(e, reg[ResponderOf(s2)]) = 1
            /\ BagCardinality(reg[ResponderOf(s2)]) = 1

C6_Witness ==
    \E s1 \in Streams, s2 \in Streams :
        /\ s1 /= s2
        /\ s1 \in loc[<<s2, "I">>].after
        /\ Succeeded(<<s1, "I">>) /\ Succeeded(<<s1, "R">>)
        /\ entryVar[<<s1, "R">>].id \notin {NilUUID, ExtId}
        /\ loc[<<s2, "I">>].id = entryVar[<<s1, "R">>].id
        /\ loc[<<s2, "I">>].public /\ entryVar[<<s1, "R">>].public
        /\ Succeeded(<<s2, "I">>) /\ Succeeded(<<s2, "R">>)
        /\ discCall[s2] = <<[op |-> "update", ok |-> TRUE]>>

\* C7: a Do called with a zero timeout never returns the deadline error; what
\* it returns is what its handshake returned.
C7_ZeroTimeoutUnbounded ==
    \A d \in Tasks :
        (timeout[d] = 0 /\ doSt[d] = "returned") =>
            /\ doRet[d].err /= "deadline exceeded"
            /\ pc[d] = "done"

C8_Returns ==
    \A d \in Tasks :
        (doSt[d] = "waiting" /\ timeout[d] > 0) ~> (doSt[d] = "returned")

C8_Step ==
    \A d \in Tasks :
        /\ (doSt[d] = "waiting" /\ doSt'[d] = "returned" /\ pc[d] /= "done") =>
               doRet'[d] = [entry |-> NoEntry, err |-> "deadline exceeded"]
        /\ doRet[d].err = "deadline exceeded" =>
               (doRet'[d] = doRet[d] /\ doSt'[d] = "returned")

\* C8: a Do called with a positive timeout eventually returns, whatever the
\* handshake and the remote peer do; when it returns while its handshake
\* has not completed it returns deadline exceeded and no Entry; and that
\* result stays what it is whatever the handshake does afterwards.
C8_DeadlineBoundsCaller == C8_Returns /\ [][C8_Step]_vars

\* Do has returned deadline exceeded, and its handshake has since ended
\* without error.
C8_Witness ==
    \E d \in Tasks :
        /\ timeout[d] > 0
        /\ doRet[d] = [entry |-> NoEntry, err |-> "deadline exceeded"]
        /\ Succeeded(d)

\* C9: after Do has returned deadline exceeded its handshake goroutine is
\* not stopped: each of its next steps can be taken as soon as the stream
\* allows it (a record to read is there), the discovery call and the
\* registry add included.
C9_SoftTimeout ==
    \A s \in Solo :
        LET i == <<s, "I">>
            r == <<s, "R">>
        IN /\ doRet[r].err = "deadline exceeded" =>
                /\ (pc[r] = "read" /\ chanIR[s] /= <<>>) => ENABLED ResponderRead(s)
                /\ pc[r] = "disc" => (ENABLED ResponderDisc(s, TRUE)
                                      /\ ENABLED ResponderDisc(s, FALSE))
                /\ pc[r] = "write" => ENABLED ResponderWrite(s)
                /\ pc[r] = "add" => ENABLED ResponderAdd(s)
           /\ doRet[i].err = "deadline exceeded" =>
                /\ pc[i] = "start" => ENABLED InitiatorWrite(s)
                /\ (pc[i] = "read" /\ chanRI[s] /= <<>>) => ENABLED InitiatorRead(s)

\* The caller of the responder's Do already holds deadline exceeded while
\* the handshake is about to add a new public entry that it has registered
\* with discovery since.
C9_Witness ==
    \E s \in Solo :
        LET r == <<s, "R">> IN
        /\ doRet[r].err = "deadline exceeded"
        /\ pc[r] = "add"
        /\ loc[r].newEntry
        /\ discCall[s] = <<[op |-> "register", ok |-> TRUE]>>
        /\ reg[ResponderOf(s)] = EmptyBag

\* The responder on s has decided whether its entry is new and has not
\* returned yet.
Deciding(s) == pc[<<s, "R">>] \in {"disc", "write", "add"}

\* C10: two responder handshakes of one manager that are under way at the
\* same time with equal public entries never both judge the entry new, and
\* never both call register.
C10_AtomicNovelty ==
    \A s1 \in Streams, s2 \in Streams :
        LET r1 == <<s1, "R">>
            r2 == <<s2, "R">>
        IN (/\ s1 /= s2
            /\ ResponderOf(s1) = ResponderOf(s2)
            /\ Deciding(s1) /\ Deciding(s2)
            /\ loc[r1].sEntry.entry = loc[r2].sEntry.entry
            /\ loc[r1].sEntry.entry.public) =>
            /\ ~(loc[r1].newEntry /\ loc[r2].newEntry)
            /\ ~(/\ discCall[s1] /= <<>> /\ discCall[s1][1].op = "register"
                 /\ discCall[s2] /= <<>> /\ discCall[s2][1].op = "register")

\* The errors settlementInitiatorHandshake returns.
InitiatorErrors == {"write", "read", "signature verification failed"}

C11_Inv ==
    \A s \in Streams :
        LET i == <<s, "I">> IN
        (pc[i] = "done" /\ TaskErr(i) /= "ok") =>
            /\ TaskErr(i) \in InitiatorErrors
            /\ entryVar[i] = NoEntry
            /\ doRet[i].entry = NoEntry
            /\ reg[InitiatorOf(s)] = EmptyBag

C11_Step ==
    \A s \in Streams :
        LET i == <<s, "I">> IN
        (/\ pc[i] \in {"start", "read"} /\ pc'[i] = "done"
         /\ Head(errCh'[i]) /= "ok") =>
            /\ Head(errCh'[i]) \in InitiatorErrors
            /\ entryVar'[i] = NoEntry
            /\ reg' = reg
            /\ discEntries' = discEntries /\ discUp' = discUp

\* C11: the step in which an initiator handshake ends with an error (write,
\* read, or signature 1 of the reply not verifying) hands back no Entry and
\* changes no registry; and an initiator that has ended with an error holds
\* no Entry, its Do has returned none, and the registry of its manager,
\* which only this handshake could have changed, is still empty; for the
\* zero id as for any other.
C11_InitiatorFailureClean == [](C11_Inv) /\ [][C11_Step]_vars

\* The zero id was passed, a fresh id was sent, and the reply's signature 1
\* did not verify.
C11_Witness ==
    \E s \in Streams :
        LET i == <<s, "I">> IN
        /\ loc[i].id = NilUUID /\ loc[i].newEntry
        /\ pc[i] = "done"
        /\ doRet[i] = [entry |-> NoEntry, err |-> "signature verification failed"]

\* What a handshake function can return: an Entry and no error, or an error
\* and no Entry.
HandshakeResult(r) ==
    \/ r.err = "ok" /\ r.entry /= NoEntry
    \/ r.err \notin {"ok", "none", "deadline exceeded"} /\ r.entry = NoEntry

C12_Inv ==
    \A d \in Tasks :
        doSt[d] = "returned" =>
            \/ /\ doRet[d] = [entry |-> NoEntry, err |-> "deadline exceeded"]
               /\ timer[d] = "fired"
            \/ /\ pc[d] = "done"
               /\ HandshakeResult(doRet[d])
               /\ doRet[d].entry = entryVar[d]

C12_Step ==
    \A d \in Tasks :
        (doSt[d] = "waiting" /\ doSt'[d] = "returned") =>
            /\ timer[d] = "armed" =>
                  /\ pc[d] = "done"
                  /\ doRet'[d] = [entry |-> entryVar[d], err |-> Head(errCh[d])]
            /\ doRet'[d].err = "deadline exceeded" => timer[d] = "fired"
            /\ doRet'[d].err /= "deadline exceeded" =>
                  /\ pc[d] = "done"
                  /\ doRet'[d] = [entry |-> entryVar[d], err |-> Head(errCh[d])]

C13_RegistryIsSet ==
    \A p \in Peers :
        \A e \in BagToSet(reg[p]) : CopiesIn(e, reg[p]) = 1

\* C14: a responder handshake that has ended with the write error returned
\* no Entry, the registry of its manager is as it was before the handshake
\* (empty), and the discovery service holds no registration and no status
\* update.
C14_WriteFailureNoMutation ==
    \A s \in Solo :
        LET r == <<s, "R">> IN
        (pc[r] = "done" /\ TaskErr(r) = "write") =>
            /\ entryVar[r] = NoEntry
            /\ reg[ResponderOf(s)] = EmptyBag
            /\ discEntries = {}
            /\ discUp = {}

\* The streams whose initiator handshake was given the zero id and has
\* ended without error.
FreshSettled ==
    {s \in Streams : Succeeded(<<s, "I">>) /\ loc[<<s, "I">>].id = NilUUID}

C15_Inv ==
    \A p \in Peers :
        LET mine == {s \in FreshSettled : InitiatorOf(s) = p}
            byResponder == {s \in Streams : ResponderOf(s) = p}
        IN byResponder = {} =>
            /\ BagToSet(reg[p]) = {entryVar[<<s, "I">>] : s \in mine}
            /\ \A e \in BagToSet(reg[p]) :
                  CopiesIn(e, reg[p]) =
                      Cardinality({s \in mine : entryVar[<<s, "I">>] = e})
            /\ \A s \in mine : CopiesIn(entryVar[<<s, "I">>], reg[p]) = 1

C15_Step ==
    \A s \in Streams :
        LET i == <<s, "I">>
            p == InitiatorOf(s)
        IN (pc[i] = "read" /\ pc'[i] = "done" /\ Head(errCh'[i]) = "ok") =>
            /\ entryVar'[i] /= NoEntry
            /\ \A q \in Peers \ {p} : reg'[q] = reg[q]
            /\ IF loc[i].id = NilUUID
               THEN reg'[p] = reg[p] (+) SetToBag({entryVar'[i]})
               ELSE reg'[p] = reg[p]

\* C15: the step in which an initiator handshake ends without error adds
\* the Entry it returns, once, to the registry of its manager when the id
\* passed in was the zero id, and changes no registry otherwise; so the
\* registry of a manager that only initiates holds exactly the Entries
\* returned by its successful handshakes that were given the zero id, each
\* once.
C15_InitiatorRegistryEffect == [](C15_Inv) /\ [][C15_Step]_vars

\* Both cases side by side: one successful handshake with the zero id, one
\* with a concrete id, and a registry of one entry.
C15_Witness ==
    \E s1 \in Streams, s2 \in Streams :
        /\ Succeeded(<<s1, "I">>) /\ loc[<<s1, "I">>].id = NilUUID
        /\ Succeeded(<<s2, "I">>) /\ loc[<<s2, "I">>].id = ExtId
        /\ reg[InitiatorOf(s1)] = SetToBag({entryVar[<<s1, "I">>]})

\* The registry r holds an entry with the four fields of the wire record m.
KnownInAllFields(r, m) ==
    \E x \in BagToSet(r) :
        /\ x.id = m.id
        /\ x.edges = m.edges
        /\ x.type = m.type
        /\ x.public = m.public

\* The responder on s has validated an entry and decided whether it is new.
Decided(s) ==
    \/ Deciding(s)
    \/ pc[<<s, "R">>] = "done" /\ TaskErr(<<s, "R">>) \in {"ok", "entry set", "write"}

C16_Inv ==
    \A s \in Streams :
        LET r == <<s, "R">>
            e == loc[r].sEntry.entry
            op == IF loc[r].newEntry THEN "register" ELSE "update"
        IN Decided(s) =>
            /\ \A k \in 1 .. Len(discCall[s]) : discCall[s][k].op = op
            /\ Len(discCall[s]) = IF e.public /\ pc[r] /= "disc" THEN 1 ELSE 0
            /\ Succeeded(r) => BagIn(e, reg[ResponderOf(s)])
            /\ (Succeeded(r) /\ e.public /\ loc[r].newEntry) =>
                   loc[r].sEntry \in discEntries
            /\ ~loc[r].newEntry => BagIn(e, reg[ResponderOf(s)])

C16_Step ==
    \A s \in Streams :
        LET r == <<s, "R">>
            p == ResponderOf(s)
        IN /\ (pc[r] = "read" /\ pc'[r] \in {"disc", "write"}) =>
                  (loc'[r].newEntry <=> ~KnownInAllFields(reg[p], Head(chanIR[s])))
           /\ (pc[r] = "add" /\ pc'[r] = "done") =>
                  reg'[p] = IF loc[r].newEntry
                            THEN reg[p] (+) SetToBag({loc[r].sEntry.entry})
                            ELSE reg[p]

\* C16: a responder that reads a valid entry judges it not new exactly when
\* the registry of its manager holds, at that moment, an entry with the
\* same id, edges, type and public flag; an entry judged new is registered
\* with discovery when it is public (never status-updated) and is added to
\* the registry when the handshake ends without error; an entry judged not
\* new is only ever status-updated and is not added again.
C16_FullFieldNovelty == [](C16_Inv) /\ [][C16_Step]_vars

\* After a handshake for a public entry had ended, a handshake for the
\* entry with the same id, edges and type but public = false was judged
\* new and added: the registry holds both.
C16_Witness ==
    \E s1 \in Streams, s2 \in Streams :
        LET e1 == entryVar[<<s1, "R">>]
            e2 == entryVar[<<s2, "R">>]
        IN /\ s1 \in loc[<<s2, "I">>].after
           /\ Succeeded(<<s1, "R">>) /\ Succeeded(<<s2, "R">>)
           /\ e1.id = e2.id /\ e1.edges = e2.edges /\ e1.type = e2.type
           /\ e1.public /\ ~e2.public
           /\ loc[<<s2, "R">>].newEntry
           /\ BagCardinality(reg[ResponderOf(s2)]) = 2

\* The responder on s has validated an entry with public = false.
PrivateDecided(s) == Decided(s) /\ ~loc[<<s, "R">>].sEntry.entry.public

C17_Inv ==
    \A s \in Streams :
        LET r == <<s, "R">>
            e == loc[r].sEntry.entry
        IN PrivateDecided(s) =>
            /\ pc[r] /= "disc"
            /\ discCall[s] = <<>>
            /\ \A x \in discEntries : x.entry /= e
            /\ VerifyPubKeySignedPayload(ResponderOf(s), loc[r].sEntry.sigs[2],
                                         ToBinary(e))
            /\ TaskErr(r) /= "entry set"
            /\ Succeeded(r) => (entryVar[r] = e /\ BagIn(e, reg[ResponderOf(s)]))

C17_Step ==
    \A s \in Streams :
        LET r == <<s, "R">>
            p == ResponderOf(s)
        IN (PrivateDecided(s)' /\ pc'[r] /= pc[r]) =>
            /\ discCall' = discCall /\ discEntries' = discEntries /\ discUp' = discUp
            /\ (pc[r] = "read") => pc'[r] = "write"
            /\ (pc[r] = "write" /\ ~closed[s]) =>
                   /\ pc'[r] = "add"
                   /\ chanRI'[s] = Append(chanRI[s], EncodeJSON(loc[r].sEntry))
            /\ (pc[r] = "add") =>
                   /\ pc'[r] = "done" /\ Head(errCh'[r]) = "ok"
                   /\ reg'[p] = IF loc[r].newEntry
                                 THEN reg[p] (+) SetToBag({loc[r].sEntry.entry})
                                 ELSE reg[p]

\* C17: a responder that has validated an entry with public = false makes
\* no discovery call, neither register nor status update, and no step of it
\* changes what the discovery service holds; it has signed position 1, its
\* next step after the read is the write of the reply, then the add, which
\* inserts the entry when it was judged new, and it ends without error
\* unless the write fails.
C17_PrivateSkipsDiscovery == [](C17_Inv) /\ [][C17_Step]_vars

\* Two handshakes one after the other for the same private entry: the
\* first judged it new, the second known; neither called discovery.
C17_Witness ==
    \E s1 \in Streams, s2 \in Streams :
        /\ s1 \in loc[<<s2, "I">>].after
        /\ Succeeded(<<s1, "R">>) /\ Succeeded(<<s2, "R">>)
        /\ entryVar[<<s1, "R">>] = entryVar[<<s2, "R">>]
        /\ ~entryVar[<<s1, "R">>].public
        /\ loc[<<s1, "R">>].newEntry /\ ~loc[<<s2, "R">>].newEntry
        /\ discCall[s1] = <<>> /\ discCall[s2] = <<>>
        /\ BagCardinality(reg[ResponderOf(s2)]) = 1

\* Signature 1 of the wire record m is a signature by pk over m's own entry.
ReplySigValid(m, pk) ==
    /\ m.signatures[2] /= NullSig
    /\ m.signatures[2].signer = pk
    /\ m.signatures[2].payload = <<m.id, m.edges[1], m.edges[2], m.type, m.public>>

C18_Inv ==
    \A s \in Streams :
        LET i == <<s, "I">> IN
        /\ Succeeded(i) =>
              VerifyPubKeySignedPayload(ResponderOf(s), loc[i].sEntry.sigs[2],
                                        ToBinary(entryVar[i]))
        /\ \A e \in BagToSet(reg[InitiatorOf(s)]) :
              \E t \in Streams :
                  /\ InitiatorOf(t) = InitiatorOf(s)
                  /\ Succeeded(<<t, "I">>)
                  /\ entryVar[<<t, "I">>] = e
                  /\ VerifyPubKeySignedPayload(ResponderOf(t),
                                               loc[<<t, "I">>].sEntry.sigs[2],
                                               ToBinary(e))

C18_Step ==
    \A s \in Streams :
        LET i == <<s, "I">>
            m == Head(chanRI[s])
        IN (pc[i] = "read" /\ pc'[i] = "done" /\ chanRI[s] /= <<>>) =>
            IF ReplySigValid(m, ResponderOf(s))
            THEN Head(errCh'[i]) = "ok"
            ELSE /\ Head(errCh'[i]) = "signature verification failed"
                 /\ entryVar'[i] = NoEntry
                 /\ reg' = reg

\* C18: the initiator step that reads a reply ends without error exactly
\* when signature 1 of the reply is a signature of the stream's remote
\* identity over the reply's own entry; with any other signature 1 (null,
\* over other bytes, by a third party, or the initiator's own signature
\* sent back) it ends with the signature error, no Entry and no registry
\* change; an initiator that ended without error holds a record whose
\* signature 1 verifies, and every entry in an initiating manager's registry
\* is the Entry of such an initiator.
C18_ReplySignatureGate == [](C18_Inv) /\ [][C18_Step]_vars

\* A reply for the entry the initiator sent, signature 0 intact and
\* signature 1 made by the third party over that entry, was refused.
C18_Witness ==
    \E s \in Streams :
        LET i == <<s, "I">>
            got == loc[i].sEntry
        IN /\ pc[i] = "done"
           /\ doRet[i] = [entry |-> NoEntry, err |-> "signature verification failed"]
           /\ got.sigs[1] = Signature(got.entry, SecKey(InitiatorOf(s)))
           /\ got.sigs[2] = Signature(got.entry, SecKey("T"))
           /\ reg[InitiatorOf(s)] = EmptyBag

\* The id of the entry the initiator on s sent: the id it was given, or for
\* the zero id the one uuid.New() returned (with one stream, the last one).
SentId(s) ==
    IF loc[<<s, "I">>].id = NilUUID THEN nextId - 1 ELSE loc[<<s, "I">>].id

\* e is the entry the initiator on s sent.
AsSent(e, s) ==
    /\ e.edges = <<InitiatorOf(s), ResponderOf(s)>>
    /\ e.type = TrType(s)
    /\ e.id = SentId(s)
    /\ e.public = loc[<<s, "I">>].public

\* C19: the Entry of an initiator handshake that ended without error, and
\* every entry in the registry of its manager, has edges [local, remote],
\* the stream's type, and the id and public flag of the entry that
\* initiator sent.
C19_ReplyMatchesSent ==
    \A s \in Solo :
        Succeeded(<<s, "I">>) =>
            /\ AsSent(entryVar[<<s, "I">>], s)
            /\ \A e \in BagToSet(reg[InitiatorOf(s)]) : AsSent(e, s)

\* Both handshakes of stream s have been started.
Started(s) == pc[<<s, "I">>] /= "idle" /\ pc[<<s, "R">>] /= "idle"

\* A handshake goroutine that has not sent its result yet finds room in
\* errCh, whether or not Do is still there to receive.
SendNeverBlocks ==
    \A d \in Tasks : pc[d] /= "done" => Len(errCh[d]) < ErrChCap

\* C20 as stated: on a stream that is never closed, with a discovery client
\* that answers every call, once both handshakes have been started both
\* goroutines eventually end; and the final send of a goroutine never
\* blocks.
C20_NoDeadlock ==
    /\ \A s \in Solo :
          Started(s) ~> (pc[<<s, "I">>] = "done" /\ pc[<<s, "R">>] = "done")
    /\ []SendNeverBlocks

\* C20 amended: on a stream that is never closed, once both handshakes have
\* been started the responder's goroutine eventually ends, and so does the
\* initiator's unless a discovery call of the responder returned an error;
\* and the final send of a goroutine never blocks.
C20_NoDeadlockUnlessDiscoveryFails ==
    /\ \A s \in Solo :
          Started(s) ~> (/\ pc[<<s, "R">>] = "done"
                         /\ (pc[<<s, "I">>] = "done" \/ DiscFailed(s)))
    /\ []SendNeverBlocks

\* Both goroutines have ended without error although both callers had
\* already been answered with deadline exceeded: the results sit in the
\* channels, read by nobody.
C20_Witness ==
    \E s \in Solo :
        /\ Succeeded(<<s, "I">>) /\ Succeeded(<<s, "R">>)
        /\ doRet[<<s, "I">>].err = "deadline exceeded"
        /\ doRet[<<s, "R">>].err = "deadline exceeded"
        /\ errCh[<<s, "I">>] = <<"ok">> /\ errCh[<<s, "R">>] = <<"ok">>

====
